---- MODULE Spec2Model ----
(***************************************************************************)
(* bun-plugin-unocss: plugin(userConfig).setup(build) resolves a UnoCSS    *)
(* configuration, creates one generator, and registers an onLoad callback  *)
(* for /\.html$/ that reads the file, asks the generator for CSS and       *)
(* splices "<style>css</style>\n</head>" in place of the first "</head>".  *)
(*                                                                         *)
(* Strings are sequences of one-character strings, so that searching,      *)
(* slicing and the replacement-pattern expansion of String.prototype       *)
(* .replace work on characters as they do in the engine.                   *)
(***************************************************************************)
EXTENDS Integers, Sequences, FiniteSets, TLC

----------------------------------------------------------------------------
(* Text literals of src/src/index.ts *)

\* '</head>', the search value of html.replace
HEAD_CLOSE == <<"<", "/", "h", "e", "a", "d", ">">>

\* '<style>', the literal that opens the replacement template
STYLE_OPEN == <<"<", "s", "t", "y", "l", "e", ">">>

\* '</style>', the literal that follows ${css} in the replacement template
STYLE_CLOSE == <<"<", "/", "s", "t", "y", "l", "e", ">">>

\* '\n', between '</style>' and '</head>' in the replacement template
NEWLINE == <<"\n">>

\* the grave accent U+0060, written by name: the character itself opens a
\* quotation in TLA+ source text
GRAVE == "grave"

----------------------------------------------------------------------------
(* String primitives of the JavaScript engine, as the code uses them *)

\* s.startsWith(t, i) with 1-based i: t occurs in s at position i
OccursAt(s, t, i) ==
    /\ i >= 1
    /\ i + Len(t) - 1 <= Len(s)
    /\ \A k \in 1..Len(t) : s[i + k - 1] = t[k]

\* the positions at which t occurs in s
Occurrences(s, t) == {i \in 1..Len(s) : OccursAt(s, t, i)}

\* s.includes(t)
Includes(s, t) == Occurrences(s, t) # {}

\* s.lastIndexOf(t), 1-based; 0 when t does not occur
IndexOfLast(s, t) ==
    LET occ == Occurrences(s, t) IN
    IF occ = {} THEN 0 ELSE CHOOSE i \in occ : \A j \in occ : j <= i

\* s.indexOf(t), 1-based; 0 when t does not occur (JavaScript's -1)
IndexOf(s, t) ==
    LET occ == Occurrences(s, t) IN
    IF occ = {} THEN 0 ELSE CHOOSE i \in occ : \A j \in occ : i <= j

\* s.slice(0, i - 1): the text before position i
Before(s, i) == SubSeq(s, 1, i - 1)

\* s.slice(i - 1): the text from position i to the end
From(s, i) == SubSeq(s, i, Len(s))

\* GetSubstitution of String.prototype.replace for a string search value (no
\* captures): in the replacement template, "$$" yields "$", "$&" the matched
\* text, "$" and a grave accent the text before the match, "$'" the text
\* after it; every other
\* character, a "$" followed by anything else included, stands for itself.
RECURSIVE GetSubstitution(_, _, _, _, _)
GetSubstitution(matched, str, position, template, k) ==
    IF k > Len(template) THEN <<>>
    ELSE IF template[k] = "$" /\ k < Len(template)
              /\ template[k + 1] \in {"$", "&", GRAVE, "'"}
         THEN (CASE template[k + 1] = "$" -> <<"$">>
                 [] template[k + 1] = "&" -> matched
                 [] template[k + 1] = GRAVE -> Before(str, position)
                 [] template[k + 1] = "'" -> From(str, position + Len(matched)))
              \o GetSubstitution(matched, str, position, template, k + 2)
         ELSE <<template[k]>>
              \o GetSubstitution(matched, str, position, template, k + 1)

\* a replace that rewrites the last occurrence instead of the first
ReplaceLast(str, searchValue, replaceValue) ==
    LET pos == IndexOfLast(str, searchValue) IN
    IF pos = 0 THEN str
    ELSE Before(str, pos)
         \o GetSubstitution(searchValue, str, pos, replaceValue, 1)
         \o From(str, pos + Len(searchValue))

\* str.replace(searchValue, replaceValue) with two strings: only the first
\* occurrence is replaced, by the expansion of replaceValue; a string
\* without the search value is returned as it is.
Replace(str, searchValue, replaceValue) ==
    LET pos == IndexOf(str, searchValue) IN
    IF pos = 0 THEN str
    ELSE Before(str, pos)
         \o GetSubstitution(searchValue, str, pos, replaceValue, 1)
         \o From(str, pos + Len(searchValue))

----------------------------------------------------------------------------
(* The onLoad callback's computation, src/src/index.ts lines 25-30 *)

\* a template that leaves the style element out when there is no CSS
StyleTemplateSkipEmpty(css) ==
    IF css = <<>> THEN HEAD_CLOSE
    ELSE STYLE_OPEN \o css \o STYLE_CLOSE \o NEWLINE \o HEAD_CLOSE

\* the template literal <style>${css}</style>\n</head>
StyleTemplate(css) == STYLE_OPEN \o css \o STYLE_CLOSE \o NEWLINE \o HEAD_CLOSE

\* contents with the style element appended when there is no '</head>'
ContentsAlwaysInjected(html, css) ==
    IF Includes(html, HEAD_CLOSE)
    THEN Replace(html, HEAD_CLOSE, StyleTemplate(css))
    ELSE html \o STYLE_OPEN \o css \o STYLE_CLOSE

\* const contents = html.replace('</head>', <the template literal>)
Contents(html, css) == Replace(html, HEAD_CLOSE, StyleTemplate(css))

----------------------------------------------------------------------------
(* Inputs *)

\* the concatenation of a sequence of strings
RECURSIVE Flat(_)
Flat(chunks) == IF chunks = <<>> THEN <<>> ELSE Head(chunks) \o Flat(Tail(chunks))

\* sequences over S of length at most n
SeqsUpTo(S, n) == UNION {[1..k -> S] : k \in 0..n}

\* other text of a document or of a style sheet
TEXT == <<"x">>

\* '</HEAD>' and '</head >': closing head tags the search value does not match
HEAD_CLOSE_UPPER == <<"<", "/", "H", "E", "A", "D", ">">>
HEAD_CLOSE_SPACED == <<"<", "/", "h", "e", "a", "d", " ", ">">>

\* The HTML files: with no closing head tag, with one, with two, with one or
\* two style elements before or after it, and with a closing head tag in
\* another spelling.
HtmlDocs ==
    { <<>>,
      TEXT,
      HEAD_CLOSE,
      Flat(<<TEXT, HEAD_CLOSE, TEXT>>),
      Flat(<<STYLE_OPEN, TEXT, STYLE_CLOSE, HEAD_CLOSE>>),
      Flat(<<HEAD_CLOSE, STYLE_OPEN, TEXT, STYLE_CLOSE>>),
      Flat(<<STYLE_OPEN, TEXT, STYLE_CLOSE, STYLE_OPEN, TEXT, STYLE_CLOSE, HEAD_CLOSE>>),
      Flat(<<HEAD_CLOSE, STYLE_OPEN, TEXT, STYLE_CLOSE, STYLE_OPEN, TEXT, STYLE_CLOSE>>),
      Flat(<<TEXT, HEAD_CLOSE, TEXT, HEAD_CLOSE>>),
      Flat(<<TEXT, HEAD_CLOSE_UPPER>>),
      Flat(<<HEAD_CLOSE_SPACED, TEXT>>) }

\* The pieces a generated style sheet is made of: plain text, a dollar sign,
\* and a dollar sign followed by each character String.prototype.replace
\* gives a meaning to.
CssChunks == { TEXT, <<"$">>, <<"$", "&">>, <<"$", GRAVE>>, <<"$", "'">> }

\* the longest style sheet, in pieces
MaxCssLen == 1

\* The CSS strings generator.generate may return.
CssOutputs == {Flat(c) : c \in SeqsUpTo(CssChunks, MaxCssLen)}

----------------------------------------------------------------------------
(* The transform as a function: its input, its latest application *)

VARIABLES
    tSource,    \* the pre-injection source text
    tPrev,      \* the text the latest application was given
    tCss,       \* the CSS the generator returned to the latest application
    tCur,       \* the contents the latest application returned
    tN          \* the number of applications so far

tvars == <<tSource, tPrev, tCss, tCur, tN>>

----------------------------------------------------------------------------
(* The plugin in a build: setup, the host's file loads, the callbacks *)

\* no value: an unset variable, an error that was not thrown
None == "none"

\* no object: a binding not yet made, a callback without result
NoObject == [absent |-> TRUE]

\* plugin() called without an argument
Undefined == "undefined"

\* a configuration object passed to plugin()
UserConfigs == {"userConfig"}

\* the configuration objects loadConfig() may resolve to
DiskConfigs == {"diskConfig"}

\* the errors the four awaited operations may reject with
LoadConfigError == "loadConfigError"
CreateGeneratorError == "createGeneratorError"
ReadError == "readError"
GenerateError == "generateError"

\* if (userConfig) with userConfig?: UserConfig. An object is truthy;
\* undefined is not.
UseUserConfigNever(uc) == FALSE

UseUserConfig(uc) == uc # Undefined

\* A regular expression as the sequence of its atoms.
Char(c) == [atom |-> "char", c |-> c]
AnyChar == [atom |-> "any"]
EndOfInput == [atom |-> "end"]

\* /.html$/, the filter with its dot left unescaped
HtmlFilterUnescaped ==
    <<AnyChar, Char("h"), Char("t"), Char("m"), Char("l"), EndOfInput>>

\* /\.html$/, the filter given to build.onLoad
HtmlFilter ==
    <<Char("."), Char("h"), Char("t"), Char("m"), Char("l"), EndOfInput>>

\* the atoms of re from the k-th on match str from position i on; "$" without
\* the m flag matches at the end of the input only, "." any character but a
\* line terminator
RECURSIVE MatchHere(_, _, _, _)
MatchHere(re, k, str, i) ==
    IF k > Len(re) THEN TRUE
    ELSE CASE re[k].atom = "char" ->
                i <= Len(str) /\ str[i] = re[k].c /\ MatchHere(re, k + 1, str, i + 1)
           [] re[k].atom = "any" ->
                i <= Len(str) /\ str[i] # "\n" /\ MatchHere(re, k + 1, str, i + 1)
           [] re[k].atom = "end" ->
                i = Len(str) + 1 /\ MatchHere(re, k + 1, str, i)

\* re.test(str): the expression matches somewhere in str
RegExpTest(re, str) == \E i \in 1..(Len(str) + 1) : MatchHere(re, 1, str, i)

\* The paths the host resolves. Two are HTML files; the others differ from
\* one in the dot, in what follows the extension, or in case.
HtmlPaths == { <<"a", ".", "h", "t", "m", "l">>, <<"b", ".", "h", "t", "m", "l">> }
OtherPaths ==
    { <<"a", "x", "h", "t", "m", "l">>,
      <<"a", ".", "h", "t", "m", "l", "x">>,
      <<"a", ".", "H", "T", "M", "L">> }
Paths == HtmlPaths \cup OtherPaths

\* the texts an HTML file may hold, and the CSS the generator may return
FileTexts == { TEXT, Flat(<<TEXT, HEAD_CLOSE, TEXT>>) }
GenCss == { TEXT, <<"$", "&">> }

\* the number of onLoad invocations of one build
MaxInv == 2

VARIABLES
    userConfig,             \* the argument of plugin()
    setupPc,                \* where setup stands: idle, loadConfig,
                            \*   createGenerator, resolved, rejected
    conf,                   \* let conf
    generator,              \* const generator
    loadConfigCalls,        \* calls of loadConfig() made
    createGeneratorCalls,   \* calls of createGenerator() made
    createGeneratorArg,     \* the argument of the latest createGenerator call
    discovered,             \* the config loadConfig() resolved to
    setupThrown,            \* the error a dependency rejected setup's await with
    setupError,             \* the error setup's promise rejected with
    registered,             \* the onLoad registrations: filter by filter
    fs,                     \* the text of each HTML file
    inv,                    \* the onLoad invocations, in the order they began
    hostDefault             \* whether the host has loaded a path itself, no
                            \*   callback having taken it

mvars == <<userConfig, setupPc, conf, generator, loadConfigCalls,
           createGeneratorCalls, createGeneratorArg, discovered, setupThrown,
           setupError, registered, fs, inv, hostDefault>>

vars == <<mvars, tvars>>

\* plugin(userConfig) returned its object; setup has not been called
Init ==
    /\ userConfig \in UserConfigs \cup {Undefined}
    /\ setupPc = "idle"
    /\ conf = None
    /\ generator = NoObject
    /\ loadConfigCalls = 0
    /\ createGeneratorCalls = 0
    /\ createGeneratorArg = None
    /\ discovered = None
    /\ setupThrown = None
    /\ setupError = None
    /\ registered = <<>>
    /\ fs \in [HtmlPaths -> FileTexts]
    /\ inv = <<>>
    /\ hostDefault = FALSE
    /\ tSource = <<>>
    /\ tPrev = <<>>
    /\ tCss = <<>>
    /\ tCur = <<>>
    /\ tN = 0

\* a setup that registers the callback before anything is awaited
SetupCallRegistersFirst ==
    /\ setupPc = "idle"
    /\ registered' = Append(registered, HtmlFilter)
    /\ IF UseUserConfig(userConfig)
       THEN /\ conf' = userConfig
            /\ createGeneratorCalls' = createGeneratorCalls + 1
            /\ createGeneratorArg' = userConfig
            /\ setupPc' = "createGenerator"
            /\ UNCHANGED loadConfigCalls
       ELSE /\ loadConfigCalls' = loadConfigCalls + 1
            /\ setupPc' = "loadConfig"
            /\ UNCHANGED <<conf, createGeneratorCalls, createGeneratorArg>>
    /\ UNCHANGED <<userConfig, generator, discovered, setupThrown, setupError,
                   fs, inv, hostDefault, tvars>>

\* setup(build) up to its first await: lines 10-20. With a configuration
\* given, conf is that value and createGenerator(conf) is called; without
\* one, loadConfig() is called.
SetupCall ==
    /\ setupPc = "idle"
    /\ IF UseUserConfig(userConfig)
       THEN /\ conf' = userConfig
            /\ createGeneratorCalls' = createGeneratorCalls + 1
            /\ createGeneratorArg' = userConfig
            /\ setupPc' = "createGenerator"
            /\ UNCHANGED loadConfigCalls
       ELSE /\ loadConfigCalls' = loadConfigCalls + 1
            /\ setupPc' = "loadConfig"
            /\ UNCHANGED <<conf, createGeneratorCalls, createGeneratorArg>>
    /\ UNCHANGED <<userConfig, generator, discovered, setupThrown, setupError,
                   registered, fs, inv, hostDefault, tvars>>

\* await loadConfig() resolves: conf = config, then createGenerator(conf) is
\* called: lines 16-20.
LoadConfigFulfilled(config) ==
    /\ setupPc = "loadConfig"
    /\ discovered' = config
    /\ conf' = config
    /\ createGeneratorCalls' = createGeneratorCalls + 1
    /\ createGeneratorArg' = config
    /\ setupPc' = "createGenerator"
    /\ UNCHANGED <<userConfig, generator, loadConfigCalls, setupThrown,
                   setupError, registered, fs, inv, hostDefault, tvars>>

\* a setup that registers the callback on its way out of a failed await
SetupRejectedRegistered(e) ==
    /\ setupThrown' = e
    /\ setupError' = e
    /\ setupPc' = "rejected"
    /\ registered' = Append(registered, HtmlFilter)
    /\ UNCHANGED <<userConfig, conf, generator, loadConfigCalls,
                   createGeneratorCalls, createGeneratorArg, discovered,
                   fs, inv, hostDefault, tvars>>

\* An await of setup throws e: setup has no try/catch, so its promise rejects
\* with e and nothing after the await runs.
SetupRejected(e) ==
    /\ setupThrown' = e
    /\ setupError' = e
    /\ setupPc' = "rejected"
    /\ UNCHANGED <<userConfig, conf, generator, loadConfigCalls,
                   createGeneratorCalls, createGeneratorArg, discovered,
                   registered, fs, inv, hostDefault, tvars>>

\* await loadConfig() rejects: line 16
LoadConfigRejected ==
    /\ setupPc = "loadConfig"
    /\ SetupRejected(LoadConfigError)

\* await createGenerator(conf) resolves: the generator is bound and the
\* callback registered with its filter, and setup returns: lines 20-32.
CreateGeneratorFulfilled ==
    /\ setupPc = "createGenerator"
    /\ generator' = [config |-> createGeneratorArg]
    /\ registered' = Append(registered, HtmlFilter)
    /\ setupPc' = "resolved"
    /\ UNCHANGED <<userConfig, conf, loadConfigCalls, createGeneratorCalls,
                   createGeneratorArg, discovered, setupThrown, setupError,
                   fs, inv, hostDefault, tvars>>

\* await createGenerator(conf) rejects: line 20
CreateGeneratorRejected ==
    /\ setupPc = "createGenerator"
    /\ SetupRejected(CreateGeneratorError)

\* a file's text changes on disk
FsWrite(path, text) ==
    /\ fs[path] # text
    /\ fs' = [fs EXCEPT ![path] = text]
    /\ UNCHANGED <<userConfig, setupPc, conf, generator, loadConfigCalls,
                   createGeneratorCalls, createGeneratorArg, discovered,
                   setupThrown, setupError, registered, inv, hostDefault, tvars>>

\* a registered callback's filter matches the path
Intercepted(path) == \E k \in 1..Len(registered) : RegExpTest(registered[k], path)

\* an invocation that has called Bun.file(path).text() and awaits it: line 23
NewInvocation(path) ==
    [ path |-> path, pc |-> "text", html |-> None, css |-> None,
      textCalls |-> 1, generateCalls |-> 0, generateArg |-> None,
      thrown |-> None, error |-> None, result |-> NoObject ]

\* The host, setup done, loads a path that a registered filter matches: the
\* callback is invoked with it and runs up to its first await.
HostLoadIntercepted(path) ==
    /\ setupPc = "resolved"
    /\ Len(inv) < MaxInv
    /\ Intercepted(path)
    /\ inv' = Append(inv, NewInvocation(path))
    /\ UNCHANGED <<userConfig, setupPc, conf, generator, loadConfigCalls,
                   createGeneratorCalls, createGeneratorArg, discovered,
                   setupThrown, setupError, registered, fs, hostDefault, tvars>>

\* The host, setup done, loads a path no registered filter matches: no
\* callback of the plugin runs.
HostLoadDefault(path) ==
    /\ setupPc = "resolved"
    /\ ~Intercepted(path)
    /\ hostDefault' = TRUE
    /\ UNCHANGED <<userConfig, setupPc, conf, generator, loadConfigCalls,
                   createGeneratorCalls, createGeneratorArg, discovered,
                   setupThrown, setupError, registered, fs, inv,
                   tvars>>

\* the html binding of invocation i, were the first text read kept for all
HtmlCached(i) ==
    IF inv[1].pc \in {"generate", "resolved"} THEN inv[1].html ELSE inv[i].html

\* const html of invocation i: each call of the callback has its own
HtmlOf(i) == inv[i].html

\* a callback that creates a generator of its own for each file
TextFulfilledFreshGenerator(i) ==
    /\ inv[i].pc = "text"
    /\ inv' = [inv EXCEPT ![i] = [@ EXCEPT !.html = fs[inv[i].path],
                                           !.generateCalls = @ + 1,
                                           !.generateArg = fs[inv[i].path],
                                           !.pc = "generate"]]
    /\ createGeneratorCalls' = createGeneratorCalls + 1
    /\ UNCHANGED <<userConfig, setupPc, conf, generator, loadConfigCalls,
                   createGeneratorArg, discovered,
                   setupThrown, setupError, registered, fs, hostDefault, tvars>>

\* a callback that hands generate the text up to the closing head tag only
TextFulfilledHeadOnly(i) ==
    /\ inv[i].pc = "text"
    /\ inv' = [inv EXCEPT ![i] =
                 [@ EXCEPT !.html = fs[inv[i].path],
                           !.generateCalls = @ + 1,
                           !.generateArg =
                               IF Includes(fs[inv[i].path], HEAD_CLOSE)
                               THEN Before(fs[inv[i].path],
                                           IndexOf(fs[inv[i].path], HEAD_CLOSE))
                               ELSE fs[inv[i].path],
                           !.pc = "generate"]]
    /\ UNCHANGED <<userConfig, setupPc, conf, generator, loadConfigCalls,
                   createGeneratorCalls, createGeneratorArg, discovered,
                   setupThrown, setupError, registered, fs, hostDefault, tvars>>

\* the text an earlier invocation for the same path has read, if there is one
CachedText(i) ==
    LET earlier == {j \in 1..(i - 1) : /\ inv[j].path = inv[i].path
                                       /\ inv[j].pc \in {"generate", "resolved"}}
    IN  IF earlier = {} THEN fs[inv[i].path]
        ELSE inv[CHOOSE j \in earlier : \A k \in earlier : j <= k].html

\* a callback that keeps the text of each path it has read
TextFulfilledCached(i) ==
    /\ inv[i].pc = "text"
    /\ inv' = [inv EXCEPT ![i] = [@ EXCEPT !.html = CachedText(i),
                                           !.generateCalls = @ + 1,
                                           !.generateArg = CachedText(i),
                                           !.pc = "generate"]]
    /\ UNCHANGED <<userConfig, setupPc, conf, generator, loadConfigCalls,
                   createGeneratorCalls, createGeneratorArg, discovered,
                   setupThrown, setupError, registered, fs, hostDefault, tvars>>

\* await Bun.file(path).text() resolves with the file's present text, and
\* generator.generate(html) is called: lines 23-24.
TextFulfilled(i) ==
    /\ inv[i].pc = "text"
    /\ inv' = [inv EXCEPT ![i] = [@ EXCEPT !.html = fs[inv[i].path],
                                           !.generateCalls = @ + 1,
                                           !.generateArg = fs[inv[i].path],
                                           !.pc = "generate"]]
    /\ UNCHANGED <<userConfig, setupPc, conf, generator, loadConfigCalls,
                   createGeneratorCalls, createGeneratorArg, discovered,
                   setupThrown, setupError, registered, fs, hostDefault, tvars>>

\* a callback that answered a failed generate with the text as read
OnLoadFallback(i, e) ==
    [inv[i] EXCEPT !.thrown = e, !.pc = "resolved",
                   !.result = [contents |-> inv[i].html, loader |-> "html"]]

\* An await of the callback throws e: the callback has no try/catch, so its
\* promise rejects with e and it returns nothing.
OnLoadRejected(i, e) ==
    [inv[i] EXCEPT !.thrown = e, !.error = e, !.pc = "rejected"]

\* await Bun.file(path).text() rejects: line 23
TextRejected(i) ==
    /\ inv[i].pc = "text"
    /\ inv' = [inv EXCEPT ![i] = OnLoadRejected(i, ReadError)]
    /\ UNCHANGED <<userConfig, setupPc, conf, generator, loadConfigCalls,
                   createGeneratorCalls, createGeneratorArg, discovered,
                   setupThrown, setupError, registered, fs, hostDefault, tvars>>

\* a result tagged as HTML only when something was injected
OnLoadResultUntagged(html, css) ==
    [ contents |-> Contents(html, css),
      loader |-> IF Contents(html, css) = html THEN "file" ELSE "html" ]

\* return { contents, loader: 'html' }: lines 25-30
OnLoadResult(html, css) == [contents |-> Contents(html, css), loader |-> "html"]

\* await generator.generate(html) resolves with css; the callback computes
\* contents and returns: lines 24-30.
GenerateFulfilled(i, css) ==
    /\ inv[i].pc = "generate"
    /\ inv' = [inv EXCEPT ![i] = [@ EXCEPT !.css = css,
                                           !.result = OnLoadResult(HtmlOf(i), css),
                                           !.pc = "resolved"]]
    /\ UNCHANGED <<userConfig, setupPc, conf, generator, loadConfigCalls,
                   createGeneratorCalls, createGeneratorArg, discovered,
                   setupThrown, setupError, registered, fs, hostDefault, tvars>>

\* await generator.generate(html) rejects: line 24
GenerateRejected(i) ==
    /\ inv[i].pc = "generate"
    /\ inv' = [inv EXCEPT ![i] = OnLoadRejected(i, GenerateError)]
    /\ UNCHANGED <<userConfig, setupPc, conf, generator, loadConfigCalls,
                   createGeneratorCalls, createGeneratorArg, discovered,
                   setupThrown, setupError, registered, fs, hostDefault, tvars>>

Next ==
    \/ SetupCall
    \/ \E config \in DiskConfigs : LoadConfigFulfilled(config)
    \/ LoadConfigRejected
    \/ CreateGeneratorFulfilled
    \/ CreateGeneratorRejected
    \/ \E path \in HtmlPaths, text \in FileTexts : FsWrite(path, text)
    \/ \E path \in Paths : HostLoadIntercepted(path)
    \/ \E path \in Paths : HostLoadDefault(path)
    \/ \E i \in 1..Len(inv) : TextFulfilled(i)
    \/ \E i \in 1..Len(inv) : TextRejected(i)
    \/ \E i \in 1..Len(inv), css \in GenCss : GenerateFulfilled(i, css)
    \/ \E i \in 1..Len(inv) : GenerateRejected(i)

\* one build with the plugin
Spec == Init /\ [][Next]_vars

----------------------------------------------------------------------------
(* The transform alone: the callback's computation applied to a text, and
   again to what it returned *)

\* the longest chain of successive applications
MaxApply == 2

\* a source text, not yet transformed; no build is running
TInit ==
    /\ tSource \in HtmlDocs
    /\ tPrev = tSource
    /\ tCss = <<>>
    /\ tCur = tSource
    /\ tN = 0
    /\ userConfig = Undefined
    /\ setupPc = "idle"
    /\ conf = None
    /\ generator = NoObject
    /\ loadConfigCalls = 0
    /\ createGeneratorCalls = 0
    /\ createGeneratorArg = None
    /\ discovered = None
    /\ setupThrown = None
    /\ setupError = None
    /\ registered = <<>>
    /\ fs = [p \in HtmlPaths |-> TEXT]
    /\ inv = <<>>
    /\ hostDefault = FALSE

\* One run of the callback's computation on the current text, with the CSS
\* the generator returned for it: lines 24-25.
Transform(css) ==
    /\ tN < MaxApply
    /\ tPrev' = tCur
    /\ tCss' = css
    /\ tCur' = Contents(tCur, css)
    /\ tN' = tN + 1
    /\ UNCHANGED <<tSource, mvars>>

TNext == \E css \in CssOutputs : Transform(css)

SpecTransform == TInit /\ [][TNext]_vars

----------------------------------------------------------------------------
(* Properties of the transform *)

\* the number of occurrences of t in s
Count(s, t) == Cardinality(Occurrences(s, t))

\* the first position from i on at which t occurs in s; 0 when there is none
RECURSIVE NextAt(_, _, _)
NextAt(s, t, i) ==
    IF i + Len(t) - 1 > Len(s) THEN 0
    ELSE IF OccursAt(s, t, i) THEN i
    ELSE NextAt(s, t, i + 1)

\* The start positions of the style elements of s from position i on, as an
\* HTML parser finds them: after '<style>' everything up to the next
\* '</style>' is the element's text, tags in it included.
RECURSIVE StyleElementsFrom(_, _)
StyleElementsFrom(s, i) ==
    LET open == NextAt(s, STYLE_OPEN, i) IN
    IF open = 0 THEN {}
    ELSE LET close == NextAt(s, STYLE_CLOSE, open + Len(STYLE_OPEN)) IN
         IF close = 0 THEN {open}
         ELSE {open} \cup StyleElementsFrom(s, close + Len(STYLE_CLOSE))

StyleElements(s) == StyleElementsFrom(s, 1)

\* The position of the closing head tag of s: the first '</head>' from i on
\* that is not text of a style element; 0 when there is none.
RECURSIVE HeadTagFrom(_, _)
HeadTagFrom(s, i) ==
    LET open == NextAt(s, STYLE_OPEN, i)
        head == NextAt(s, HEAD_CLOSE, i)
    IN  IF head = 0 \/ open = 0 \/ head < open THEN head
        ELSE LET close == NextAt(s, STYLE_CLOSE, open + Len(STYLE_OPEN)) IN
             IF close = 0 THEN 0
             ELSE HeadTagFrom(s, close + Len(STYLE_CLOSE))

HeadTag(s) == HeadTagFrom(s, 1)

\* the number of style elements of s that begin before its closing head tag
StylesBeforeHead(s) ==
    LET head == HeadTag(s) IN
    Cardinality({e \in StyleElements(s) : e < head})

\* the latest application was given a text that contains '</head>'
AppliedToHead == tN >= 1 /\ Includes(tPrev, HEAD_CLOSE)

\* where the first '</head>' of that text stood; 0 when it held none
InsertAt == IndexOf(tPrev, HEAD_CLOSE)

\* C1: for an input that contains '</head>' and any CSS, the output holds
\* exactly one more style element than the input, and its closing head tag
\* comes right after a '</style>' and the line break.
C1_OneMoreStyleElement ==
    (tN >= 1 /\ Includes(tPrev, HEAD_CLOSE)) =>
        /\ Cardinality(StyleElements(tCur)) = Cardinality(StyleElements(tPrev)) + 1
        /\ OccursAt(tCur, STYLE_CLOSE \o NEWLINE,
                    HeadTag(tCur) - Len(STYLE_CLOSE \o NEWLINE))

\* C2: the transform only inserts: the output is the input up to its first
\* '</head>', then inserted text, then the input from that '</head>' to the
\* end, so later '</head>' and every other character are unchanged.
C2_OnlyInserts ==
    LET p == InsertAt IN
    (tN >= 1 /\ p > 0) =>
        LET tail == From(tPrev, p) IN
        /\ Len(tCur) >= Len(tPrev)
        /\ Before(tCur, p) = Before(tPrev, p)
        /\ From(tCur, Len(tCur) - Len(tail) + 1) = tail

\* C2 witness: a text with two '</head>' was transformed.
C2_Witness ==
    /\ AppliedToHead
    /\ Count(tPrev, HEAD_CLOSE) >= 2
    /\ tCur # tPrev

\* C3: for an input that contains '</head>', the output holds at the insertion
\* point '<style>', then the generator's CSS character for character, then
\* '</style>', whatever the CSS is.
C3_CssVerbatim ==
    LET p == InsertAt IN
    (tN >= 1 /\ p > 0) =>
        OccursAt(tCur, STYLE_OPEN \o tCss \o STYLE_CLOSE, p)

\* the output holds '<style>' at position p and a '</style>' after it
StyleElementAt(p) ==
    /\ OccursAt(tCur, STYLE_OPEN, p)
    /\ \E j \in (p + Len(STYLE_OPEN))..Len(tCur) : OccursAt(tCur, STYLE_CLOSE, j)

\* C4 as stated: whenever the generator returns the empty style sheet, the
\* output holds an injected '<style>' followed by '</style>'.
C4_StylePresentForAnyInput ==
    (tN >= 1 /\ tCss = <<>>) => \E p \in 1..Len(tCur) : StyleElementAt(p)

\* C4, amended: for an input that contains '</head>', the output holds an
\* injected '<style>' followed by '</style>', also when the generator returns
\* the empty style sheet.
C4_StylePresentWhenHead ==
    LET p == InsertAt IN (tN >= 1 /\ p > 0) => StyleElementAt(p)

\* C4 witness: an input with '</head>' and no style element met empty CSS.
C4_Witness ==
    /\ AppliedToHead
    /\ tCss = <<>>
    /\ Count(tPrev, STYLE_OPEN) = 0

\* C5: after n successive applications to a source that contains '</head>',
\* n style elements have been added before the closing head tag.
C5_NApplicationsNElements ==
    Includes(tSource, HEAD_CLOSE) =>
        StylesBeforeHead(tCur) = StylesBeforeHead(tSource) + tN

\* C15: a text without the exact substring '</head>' is returned as it is,
\* character for character, whatever CSS was generated.
C15_UnchangedWithoutHead ==
    (tN >= 1 /\ ~Includes(tPrev, HEAD_CLOSE)) => tCur = tPrev

\* C15 witness: a text with '</HEAD>' met a style sheet that is not empty.
C15_Witness ==
    /\ tN >= 1
    /\ Includes(tPrev, HEAD_CLOSE_UPPER)
    /\ ~Includes(tPrev, HEAD_CLOSE)
    /\ tCss # <<>>

----------------------------------------------------------------------------
(* Properties of the plugin in a build *)

\* the path ends in the five characters ".html"
EndsWithHtml(path) ==
    /\ Len(path) >= 5
    /\ SubSeq(path, Len(path) - 4, Len(path)) = <<".", "h", "t", "m", "l">>

\* C6: with a configuration passed to plugin(), loadConfig is never called
\* and createGenerator gets exactly that value; with none passed, loadConfig
\* is called once, and createGenerator gets the config it returned.
C6_ConfigSource ==
    /\ userConfig # Undefined =>
          /\ loadConfigCalls = 0
          /\ discovered = None
          /\ createGeneratorCalls > 0 => createGeneratorArg = userConfig
          /\ generator # NoObject => generator.config = userConfig
    /\ userConfig = Undefined =>
          /\ loadConfigCalls = (IF setupPc = "idle" THEN 0 ELSE 1)
          /\ createGeneratorCalls > 0 =>
                discovered \in DiskConfigs /\ createGeneratorArg = discovered
          /\ generator # NoObject => generator.config = discovered

\* C6 witness: setup finished with the configuration that was passed.
C6_Witness ==
    /\ setupPc = "resolved"
    /\ userConfig \in UserConfigs
    /\ generator = [config |-> userConfig]

\* C7: once setup has registered the callback, a path is taken by it exactly
\* when the path ends in ".html", and every callback invocation has such a
\* path.
C7_HtmlOnly ==
    /\ setupPc = "resolved" =>
          \A path \in Paths : Intercepted(path) <=> EndsWithHtml(path)
    /\ \A i \in 1..Len(inv) : EndsWithHtml(inv[i].path)

\* C7 witness: the callbacks took both HTML files, and the host loaded
\* another path itself.
C7_Witness ==
    /\ {inv[i].path : i \in 1..Len(inv)} = HtmlPaths
    /\ hostDefault

\* C8: a failed await is not retried and its error reaches the caller as it
\* is: setup rejects with it, having made no further call and bound no
\* generator; the callback rejects with it and returns no contents.
C8_ErrorsPropagate ==
    /\ loadConfigCalls <= 1
    /\ createGeneratorCalls <= 1
    /\ setupThrown # None =>
          /\ setupPc = "rejected"
          /\ setupError = setupThrown
          /\ generator = NoObject
          /\ setupThrown = LoadConfigError =>
                conf = None /\ createGeneratorCalls = 0
    /\ \A i \in 1..Len(inv) :
          /\ inv[i].textCalls <= 1
          /\ inv[i].generateCalls <= 1
          /\ inv[i].thrown # None =>
                /\ inv[i].pc = "rejected"
                /\ inv[i].error = inv[i].thrown
                /\ inv[i].result = NoObject
                /\ inv[i].thrown = ReadError => inv[i].generateCalls = 0

\* C8 witness: one callback failed reading its file, another failed in
\* generate after reading a text that contains '</head>'.
C8_Witness ==
    \E i, j \in 1..Len(inv) :
        /\ inv[i].thrown = ReadError
        /\ inv[j].thrown = GenerateError
        /\ Includes(inv[j].html, HEAD_CLOSE)

\* C9: every result a callback returns has the loader 'html', also when the
\* contents are the text as read.
C9_LoaderHtml ==
    \A i \in 1..Len(inv) :
        inv[i].pc = "resolved" =>
            inv[i].result # NoObject /\ inv[i].result.loader = "html"

\* C9 witness: a callback returned a text into which nothing was injected.
C9_Witness ==
    \E i \in 1..Len(inv) :
        /\ inv[i].pc = "resolved"
        /\ inv[i].result.contents = inv[i].html
        /\ ~Includes(inv[i].html, HEAD_CLOSE)

\* C10: however the callbacks interleave, the result of each is the one
\* computed from the text read for it and the CSS generated for it.
C10_NoSharedState ==
    \A i \in 1..Len(inv) :
        inv[i].pc = "resolved" =>
            inv[i].result = [ contents |-> Contents(inv[i].html, inv[i].css),
                              loader |-> "html" ]

\* C10 witness: a callback that began later, for another file with another
\* text, has returned its result while an earlier one still awaits generate.
C10_Witness ==
    \E i, j \in 1..Len(inv) :
        /\ i < j
        /\ inv[i].path # inv[j].path
        /\ inv[i].pc = "generate"
        /\ inv[j].pc = "resolved"
        /\ inv[i].html # inv[j].html
        /\ Includes(inv[j].html, HEAD_CLOSE)

\* C11: within setup the configuration is resolved before createGenerator is
\* called, the generator exists before the callback is registered, the
\* callback is registered once, and no callback runs without the generator.
C11_SetupOrder ==
    /\ createGeneratorCalls > 0 => conf # None /\ createGeneratorArg = conf
    /\ generator # NoObject => createGeneratorCalls = 1
    /\ registered # <<>> => generator # NoObject
    /\ Len(registered) = (IF setupPc = "resolved" THEN 1 ELSE 0)
    /\ inv # <<>> => generator # NoObject /\ Len(registered) = 1

\* C11 witness: setup discovered its configuration, created the generator and
\* registered the callback, and a file has been transformed.
C11_Witness ==
    /\ setupPc = "resolved"
    /\ discovered \in DiskConfigs
    /\ generator = [config |-> discovered]
    /\ registered = <<HtmlFilter>>
    /\ \E i \in 1..Len(inv) : inv[i].pc = "resolved"

\* the invocations that have returned a result
Transformed == {i \in 1..Len(inv) : inv[i].pc = "resolved"}

\* C12: whatever number of files the callbacks have handled, createGenerator
\* has been called once, the configuration has been resolved once (loadConfig
\* called once, or never with a configuration passed), and the generator is
\* the one setup created.
C12_OneGenerator ==
    inv # <<>> =>
        /\ createGeneratorCalls = 1
        /\ loadConfigCalls = (IF userConfig = Undefined THEN 1 ELSE 0)
        /\ generator = [config |-> conf]
        /\ conf = (IF userConfig = Undefined THEN discovered ELSE userConfig)

\* C12 witness: two files have been transformed.
C12_Witness ==
    /\ Cardinality(Transformed) >= 2
    /\ createGeneratorCalls = 1

\* invocation i has finished, with a result or with an error
Settled(i) == inv[i].pc \in {"resolved", "rejected"}

\* invocation i has read its file
HasRead(i) == inv[i].pc \in {"generate", "resolved"} \/ inv[i].thrown = GenerateError

\* C13 as stated: every invocation, once finished, has called generate
\* exactly once, with the entire text it read.
C13_GenerateOncePerInvocation ==
    \A i \in 1..Len(inv) :
        Settled(i) => inv[i].generateCalls = 1 /\ inv[i].generateArg = inv[i].html

\* C13, amended: every invocation whose file read succeeded has called
\* generate exactly once, with the entire text it read; one whose read failed
\* or is still awaited has not called it.
C13_GenerateOnceAfterRead ==
    \A i \in 1..Len(inv) :
        IF HasRead(i)
        THEN inv[i].generateCalls = 1 /\ inv[i].generateArg = inv[i].html
        ELSE inv[i].generateCalls = 0

\* C13 witness: a text with '</head>' in its middle was read and transformed.
C13_Witness ==
    \E i \in 1..Len(inv) :
        /\ inv[i].pc = "resolved"
        /\ inv[i].generateArg = Flat(<<TEXT, HEAD_CLOSE, TEXT>>)
        /\ inv[i].result.contents # inv[i].generateArg

\* how far each invocation has got, and the reads it has made
Progress == [i \in 1..Len(inv) |-> <<inv[i].pc, inv[i].textCalls>>]

\* C14: every invocation reads its file once, the read gives the text the
\* file holds at that moment, that text is what generate is given, and the
\* result is computed from it and from the CSS generated for it; this holds
\* of every step in which an invocation starts or moves on.
C14_ReadsAgain ==
    [][\A i \in 1..Len(inv) :
          /\ inv'[i].textCalls = 1
          /\ (inv[i].pc = "text" /\ inv'[i].pc = "generate") =>
                /\ inv'[i].html = fs[inv[i].path]
                /\ inv'[i].generateArg = fs[inv[i].path]
          /\ (inv[i].pc = "generate" /\ inv'[i].pc = "resolved") =>
                inv'[i].result.contents = Contents(inv[i].html, inv'[i].css)]_Progress

\* C14 witness: a path was transformed twice, the file having changed in
\* between: the second result comes from the new text.
C14_Witness ==
    \E i, j \in 1..Len(inv) :
        /\ i < j
        /\ inv[i].path = inv[j].path
        /\ inv[i].pc = "resolved" /\ inv[j].pc = "resolved"
        /\ inv[i].html # inv[j].html
        /\ inv[j].html = fs[inv[j].path]
        /\ inv[j].result.contents = Contents(fs[inv[j].path], inv[j].css)
        /\ inv[i].css # inv[j].css

\* C16: when setup has rejected, no callback is registered, no path is taken
\* by the plugin and no file has been transformed.
C16_NoCallbackAfterFailedSetup ==
    setupPc = "rejected" =>
        /\ registered = <<>>
        /\ \A path \in Paths : ~Intercepted(path)
        /\ inv = <<>>

\* C16 witness: createGenerator rejected after the configuration was found.
C16_Witness ==
    /\ setupPc = "rejected"
    /\ setupThrown = CreateGeneratorError
    /\ discovered \in DiskConfigs

====
